---- MODULE Spec2Model ----
(***************************************************************************)
(* One script run of the Streamlit voice bot (app.py): the optional        *)
(* imports, the loading of the API keys, the page configuration, the       *)
(* definition of AudioProcessor, and then the three voice flows (simple    *)
(* recorder of tab 1, WebRTC "Save & Process Recording", second simple     *)
(* recorder) and the text flow, each a chain                               *)
(* transcribe_audio -> get_response -> text_to_speech.                     *)
(*                                                                         *)
(* Python values: a str or None is a record [isNone, s] with s a sequence  *)
(* of one-character strings; bytes or None is a record [isNone, len]; a    *)
(* file path or None is a record [kind, t], t being the int(time.time())   *)
(* that names the file.                                                    *)
(***************************************************************************)
EXTENDS Integers, Sequences, FiniteSets, TLC

\* ---------------------------------------------------------------- bounds
MaxClock == 3
MaxFrames == 2
MaxExtra == 1

\* ------------------------------------------------------ program constants
MinAudioBytes == 1000
retries == 3
SleepSeconds == 2
WavHeaderSize == 44

\* ------------------------------------------------------------ Python values
None == [isNone |-> TRUE, s |-> <<>>]
Str(s) == [isNone |-> FALSE, s |-> s]
Truthy(x) == ~x.isNone /\ x.s # <<>>

NoBytes == [isNone |-> TRUE, len |-> 0]
Bytes(n) == [isNone |-> FALSE, len |-> n]
BytesTruthy(b) == ~b.isNone /\ b.len > 0

NoPath == [kind |-> "none", t |-> 0]
WavPath(t) == [kind |-> "wav", t |-> t]
Mp3Path(t) == [kind |-> "mp3", t |-> t]

Min(a, b) == IF a < b THEN a ELSE b

\* ------------------------------------------------------- str.strip / lower
Whitespace == {" ", "\t", "\n"}

RECURSIVE lstrip(_)
lstrip(s) == IF s # <<>> /\ Head(s) \in Whitespace THEN lstrip(Tail(s)) ELSE s

RECURSIVE rstrip(_)
rstrip(s) ==
    IF s # <<>> /\ s[Len(s)] \in Whitespace
    THEN rstrip(SubSeq(s, 1, Len(s) - 1))
    ELSE s

strip(s) == rstrip(lstrip(s))

UpperCase == <<"A","B","C","D","E","F","G","H","I","J","K","L","M",
               "N","O","P","Q","R","S","T","U","V","W","X","Y","Z">>
LowerCase == <<"a","b","c","d","e","f","g","h","i","j","k","l","m",
               "n","o","p","q","r","s","t","u","v","w","x","y","z">>

lowerChar(c) ==
    IF \E i \in 1..Len(UpperCase) : UpperCase[i] = c
    THEN LowerCase[CHOOSE i \in 1..Len(UpperCase) : UpperCase[i] = c]
    ELSE c

lower(s) == [i \in 1..Len(s) |-> lowerChar(s[i])]

\* the list of line 200
Hallucinations ==
    { <<"t","h","a","n","k"," ","y","o","u">>,
      <<"t","h","a","n","k"," ","y","o","u",".">>,
      <<"t","h","a","n","k","s"," ","f","o","r"," ","w","a","t","c","h","i","n","g">>,
      <<>> }

IsHallucination_NoLower(text) == text \in Hallucinations
IsHallucination(text) == lower(text) \in Hallucinations

\* ---------------------------------------------------------------- guards
KeyMissing_Unchecked(k) == FALSE
KeyMissing(k) == k \in {"unset", "empty"}

TooSmall_Hundred(b) == ~BytesTruthy(b) \/ b.len < 100
TooSmall(b) == ~BytesTruthy(b) \/ b.len < MinAudioBytes

ShouldRetry_OffByOne(attempt) == attempt < retries
ShouldRetry(attempt) == attempt < retries - 1

ProceedToLLM(user_input) == Truthy(user_input)

ProceedToTTS_NotNone(answer) == ~answer.isNone
ProceedToTTS(answer) == Truthy(answer)

\* ------------------------------------------------------------------ inputs
AudioLens == {0, 1} \cup ((MinAudioBytes - 1)..(MinAudioBytes + MaxExtra))
AudioValues == {NoBytes} \cup {Bytes(n) : n \in AudioLens}
\* what mic_recorder returns: None, or a dict whose 'bytes' may be missing
AudioData == [present : BOOLEAN, bytes : AudioValues]

FrameSizes == {0, 500}
RECURSIVE SeqsUpTo(_, _)
SeqsUpTo(S, n) ==
    IF n = 0 THEN {<<>>}
    ELSE LET shorter == SeqsUpTo(S, n - 1)
         IN shorter \cup {Append(q, x) : q \in shorter, x \in S}
FrameLists == SeqsUpTo(FrameSizes, MaxFrames)

RECURSIVE join(_)
join(frames) == IF frames = <<>> THEN 0 ELSE Head(frames) + join(Tail(frames))

TranscriptTexts ==
    { None,
      Str(<<>>),
      Str(<<" ">>),
      Str(<<"H","i">>),
      Str(<<"T","h","a","n","k"," ","y","o","u">>),
      Str(<<" ","t","h","a","n","k"," ","y","o","u",".","\n">>),
      Str(<<"T","H","A","N","K","S"," ","F","O","R"," ","W","A","T","C","H","I","N","G">>),
      Str(<<"t","h","a","n","k"," ","y","o","u","!">>) }

\* one call of transcriber.transcribe: it raises, or returns a transcript
TranscriptOutcomes ==
    { [kind |-> "raised", text |-> None], [kind |-> "error", text |-> None] }
    \cup { [kind |-> "completed", text |-> t] : t \in TranscriptTexts }
NoAttempt == [kind |-> "none", text |-> None]

\* requests.post + raise_for_status + json + result["choices"][0]...
LLMOutcomes ==
    { [kind |-> "content", text |-> Str(<<"o","k">>)],
      [kind |-> "content", text |-> Str(<<>>)],
      [kind |-> "content", text |-> None],
      [kind |-> "request_exception", text |-> None],
      [kind |-> "key_error", text |-> None] }

UserTexts ==
    { <<>>, <<" ">>, <<"H","i">>, <<"t","h","a","n","k"," ","y","o","u">> }

KeyValues == {"unset", "empty", "set"}

Environments ==
    [ openrouter : KeyValues,
      assemblyai : KeyValues,
      webrtc_installed : BOOLEAN,
      av_installed : BOOLEAN,
      mic_installed : BOOLEAN,
      eager_annotations : BOOLEAN,
      page_config_first : BOOLEAN ]

VoiceFlows == {"tab1", "webrtc", "simple2"}

NextTab(p) ==
    CASE p = "tab1" -> "webrtc"
      [] p = "webrtc" -> "simple2"
      [] p = "simple2" -> "tab3"
      [] OTHER -> "end"

\* ------------------------------------------------------------------- state
VARIABLES
    env,                 \* what is installed, which keys the environment has
    clock,               \* int(time.time())
    audio_dir,           \* the files in AUDIO_DIR
    pc,                  \* position of the script run
    crash,               \* the uncaught exception that ended the run
    st_used,             \* a Streamlit command has been issued
    HAS_WEBRTC, HAS_MIC_RECORDER, av_bound,
    OPENROUTER_API_KEY, aai_api_key,
    webrtc_streamer_called,
    flow,                \* the flow the locals below belong to
    stage,               \* position inside the flow
    audio_bytes, file_path, attempt, user_input, answer, tts_file,
    called, done,        \* stages called / returned in this flow
    llm_prompt, tts_text,
    created,             \* files this call of transcribe_audio created
    transcriber_calls,   \* calls of transcriber.transcribe in this call
    last_attempt,        \* what the last call of the transcriber did
    save_raised,         \* save_as_wav caught an exception
    error_reported,      \* "AssemblyAI Transcription Error" was shown
    http_posts,          \* requests.post calls of this run
    debug_keys           \* keys of the debug download buttons of this run

platformVars == <<env, clock, audio_dir>>
moduleVars == <<st_used, HAS_WEBRTC, HAS_MIC_RECORDER, av_bound,
                OPENROUTER_API_KEY, aai_api_key, webrtc_streamer_called,
                debug_keys>>
transcribeVars == <<audio_bytes, file_path, attempt, user_input, created,
                    transcriber_calls, last_attempt, save_raised, error_reported>>
chainVars == <<answer, tts_file, llm_prompt, tts_text, http_posts>>
vars == <<platformVars, moduleVars, transcribeVars, chainVars,
          pc, crash, flow, stage, called, done>>

Init ==
    /\ env \in Environments
    /\ clock = 0
    /\ audio_dir = {}
    /\ pc = "import"
    /\ crash = "none"
    /\ st_used = FALSE
    /\ HAS_WEBRTC = FALSE
    /\ HAS_MIC_RECORDER = FALSE
    /\ av_bound = FALSE
    /\ OPENROUTER_API_KEY = "unset"
    /\ aai_api_key = "unset"
    /\ webrtc_streamer_called = FALSE
    /\ flow = "none"
    /\ stage = "idle"
    /\ audio_bytes = NoBytes
    /\ file_path = NoPath
    /\ attempt = 0
    /\ user_input = None
    /\ answer = None
    /\ tts_file = NoPath
    /\ called = {}
    /\ done = {}
    /\ llm_prompt = None
    /\ tts_text = None
    /\ created = {}
    /\ transcriber_calls = 0
    /\ last_attempt = NoAttempt
    /\ save_raised = FALSE
    /\ error_reported = FALSE
    /\ http_posts = 0
    /\ debug_keys = {}

\* the locals of a flow, as they are when the flow starts
ResetFlow(f) ==
    /\ flow' = f
    /\ file_path' = NoPath
    /\ attempt' = 0
    /\ user_input' = None
    /\ answer' = None
    /\ tts_file' = NoPath
    /\ called' = {}
    /\ done' = {}
    /\ llm_prompt' = None
    /\ tts_text' = None
    /\ created' = {}
    /\ transcriber_calls' = 0
    /\ last_attempt' = NoAttempt
    /\ save_raised' = FALSE
    /\ error_reported' = FALSE

\* ---------------------------------------------------- module-level script
\* lines 13-35: the optional imports
Import ==
    /\ pc = "import"
    /\ LET ok == env.webrtc_installed /\ env.av_installed
       IN /\ HAS_WEBRTC' = ok
          /\ av_bound' = ok
          /\ st_used' = ~ok
    /\ HAS_MIC_RECORDER' = env.mic_installed
    /\ pc' = "setup"
    /\ UNCHANGED <<platformVars, transcribeVars, chainVars, crash, flow, stage,
                   called, done, OPENROUTER_API_KEY, aai_api_key,
                   webrtc_streamer_called, debug_keys>>

\* lines 40-60: the API keys and st.set_page_config
Setup ==
    /\ pc = "setup"
    /\ OPENROUTER_API_KEY' = env.openrouter
    /\ aai_api_key' = IF KeyMissing(env.assemblyai) THEN "unset" ELSE env.assemblyai
    /\ IF st_used /\ env.page_config_first
       THEN /\ crash' = "StreamlitAPIException"
            /\ pc' = "crashed"
            /\ UNCHANGED st_used
       ELSE /\ st_used' = TRUE
            /\ pc' = "defs"
            /\ UNCHANGED crash
    /\ UNCHANGED <<platformVars, transcribeVars, chainVars, flow, stage, called,
                   done, HAS_WEBRTC, HAS_MIC_RECORDER, av_bound,
                   webrtc_streamer_called, debug_keys>>

\* lines 91-257: the def statements; line 240 evaluates av.AudioFrame
Defs ==
    /\ pc = "defs"
    /\ IF env.eager_annotations /\ ~av_bound
       THEN /\ crash' = "NameError"
            /\ pc' = "crashed"
       ELSE /\ pc' = "tab1"
            /\ UNCHANGED crash
    /\ UNCHANGED <<platformVars, moduleVars, transcribeVars, chainVars, flow,
                   stage, called, done>>

\* ------------------------------------------------------------ save_as_wav
\* lines 116-142.  io is what the file system does: "ok", "open_fail" (wave.open
\* raises, nothing is created) or "write_fail" (the file is created and a later
\* write raises).  The result is the returned path and the new AUDIO_DIR.
save_as_wav(b, io, now, dir) ==
    IF TooSmall(b)
    THEN [ret |-> NoPath, dir |-> dir, raised |-> FALSE, made |-> {}]
    ELSE LET p == WavPath(now)
             file_size == WavHeaderSize + b.len
         IN CASE io = "open_fail" ->
                   [ret |-> NoPath, dir |-> dir, raised |-> TRUE, made |-> {}]
              [] io = "write_fail" ->
                   [ret |-> NoPath, dir |-> dir \cup {p}, raised |-> TRUE, made |-> {p}]
              [] OTHER ->
                   IF file_size < MinAudioBytes
                   THEN [ret |-> NoPath, dir |-> dir \ {p}, raised |-> FALSE, made |-> {p}]
                   ELSE [ret |-> p, dir |-> dir \cup {p}, raised |-> FALSE, made |-> {p}]

IOOutcomes == {"ok", "open_fail", "write_fail"}

\* ------------------------------------------------------- transcribe_audio
\* the call returns v to the flow
ReturnFromTranscribe(v) ==
    /\ user_input' = v
    /\ done' = done \cup {"transcribe"}
    /\ stage' = "after_transcribe"

\* lines 144-176 (and 228-232): the checks, save_as_wav, the debug download
\* button, whose key debug_<int(time.time())> must be new in this run, and the
\* transcriber's construction
TranscribeEnter ==
    /\ stage = "transcribe"
    /\ called' = called \cup {"transcribe"}
    /\ IF ~BytesTruthy(audio_bytes) \/ KeyMissing(aai_api_key)
       THEN /\ ReturnFromTranscribe(None)
            /\ UNCHANGED <<audio_dir, file_path, created, save_raised,
                           debug_keys, error_reported>>
       ELSE \E io \in IOOutcomes :
              LET r == save_as_wav(audio_bytes, io, clock, audio_dir)
              IN /\ file_path' = r.ret
                 /\ created' = r.made
                 /\ save_raised' = r.raised
                 /\ IF r.ret = NoPath
                    THEN /\ audio_dir' = r.dir
                         /\ ReturnFromTranscribe(None)
                         /\ UNCHANGED <<debug_keys, error_reported>>
                    ELSE IF clock \in debug_keys
                         THEN /\ error_reported' = TRUE
                              /\ audio_dir' = r.dir \ {r.ret}
                              /\ ReturnFromTranscribe(None)
                              /\ UNCHANGED debug_keys
                         ELSE /\ debug_keys' = debug_keys \cup {clock}
                              /\ audio_dir' = r.dir
                              /\ stage' = "attempt"
                              /\ UNCHANGED <<user_input, done, error_reported>>
    /\ UNCHANGED <<env, clock, st_used, HAS_WEBRTC, HAS_MIC_RECORDER, av_bound,
                   OPENROUTER_API_KEY, aai_api_key, webrtc_streamer_called,
                   chainVars, pc, crash, flow, audio_bytes, attempt,
                   transcriber_calls, last_attempt>>

\* lines 179-232: one iteration of the retry loop, with the outer handler
Attempt ==
    /\ stage = "attempt"
    /\ \E tr \in TranscriptOutcomes :
         /\ transcriber_calls' = transcriber_calls + 1
         /\ last_attempt' = tr
         /\ IF tr.kind = "completed"
            THEN LET text == IF Truthy(tr.text) THEN Str(strip(tr.text.s)) ELSE None
                 IN /\ audio_dir' = audio_dir \ {file_path}
                    /\ IF Truthy(text) /\ IsHallucination(text.s)
                       THEN ReturnFromTranscribe(None)
                       ELSE ReturnFromTranscribe(IF Truthy(text) THEN text ELSE None)
                    /\ UNCHANGED <<clock, attempt, error_reported>>
            ELSE IF ShouldRetry(attempt)
                 THEN /\ clock' = Min(clock + SleepSeconds, MaxClock)
                      /\ attempt' = attempt + 1
                      /\ IF attempt + 1 < retries
                         THEN UNCHANGED <<stage, user_input, done>>
                         ELSE ReturnFromTranscribe(None)
                      /\ UNCHANGED <<audio_dir, error_reported>>
                 ELSE /\ error_reported' = TRUE
                      /\ audio_dir' = audio_dir \ {file_path}
                      /\ ReturnFromTranscribe(None)
                      /\ UNCHANGED <<clock, attempt>>
    /\ UNCHANGED <<env, moduleVars, chainVars, pc, crash, flow, called,
                   audio_bytes, file_path, created, save_raised>>

\* ------------------------------------------------------------ get_response
\* lines 91-104, called with prompt; o is what the HTTP exchange does
get_response(prompt, o, calledBefore, doneBefore) ==
    /\ called' = calledBefore \cup {"llm"}
    /\ llm_prompt' = prompt
    /\ IF KeyMissing(OPENROUTER_API_KEY)
       THEN /\ answer' = None
            /\ done' = doneBefore \cup {"llm"}
            /\ stage' = "after_llm"
            /\ UNCHANGED <<http_posts, crash, pc>>
       ELSE /\ http_posts' = http_posts + 1
            /\ IF o.kind = "key_error"
               THEN /\ crash' = "KeyError"
                    /\ pc' = "crashed"
                    /\ stage' = "idle"
                    /\ answer' = None
                    /\ done' = doneBefore
               ELSE /\ answer' = o.text
                    /\ done' = doneBefore \cup {"llm"}
                    /\ stage' = "after_llm"
                    /\ UNCHANGED <<crash, pc>>

\* ---------------------------------------------------------- the voice flows
\* lines 271-300 and 469-498: a simple recorder up to its transcribe_audio call
RecorderBegin(f) ==
    /\ pc = f
    /\ stage = "idle"
    /\ ResetFlow(f)
    /\ IF ~HAS_MIC_RECORDER
       THEN /\ pc' = NextTab(f)
            /\ UNCHANGED <<stage, audio_bytes>>
       ELSE \E audio_data \in AudioData, clear \in BOOLEAN :
              IF clear
              THEN /\ pc' = "rerun"
                   /\ UNCHANGED <<stage, audio_bytes>>
              ELSE IF audio_data.present /\ BytesTruthy(audio_data.bytes)
                   THEN /\ audio_bytes' = audio_data.bytes
                        /\ stage' = "transcribe"
                        /\ UNCHANGED pc
                   ELSE /\ pc' = NextTab(f)
                        /\ UNCHANGED <<stage, audio_bytes>>
    /\ UNCHANGED <<platformVars, moduleVars, crash, http_posts>>

\* what webrtc_ctx.audio_processor is: None, or a processor holding frames
Processors == [present : BOOLEAN, frames : FrameLists]

\* lines 342-429: the WebRTC section up to its transcribe_audio call
WebrtcBegin ==
    /\ pc = "webrtc"
    /\ stage = "idle"
    /\ ResetFlow("webrtc")
    /\ IF ~HAS_WEBRTC
       THEN /\ pc' = NextTab("webrtc")
            /\ UNCHANGED <<stage, audio_bytes, webrtc_streamer_called>>
       ELSE /\ webrtc_streamer_called' = TRUE
            /\ \E proc \in Processors, clear \in BOOLEAN, process \in BOOLEAN :
                 IF clear
                 THEN /\ pc' = "rerun"
                      /\ UNCHANGED <<stage, audio_bytes>>
                 ELSE IF process /\ proc.present /\ proc.frames # <<>>
                      THEN /\ audio_bytes' = Bytes(join(proc.frames))
                           /\ stage' = "transcribe"
                           /\ UNCHANGED pc
                      ELSE /\ pc' = NextTab("webrtc")
                           /\ UNCHANGED <<stage, audio_bytes>>
    /\ UNCHANGED <<platformVars, st_used, HAS_WEBRTC, HAS_MIC_RECORDER, av_bound,
                   OPENROUTER_API_KEY, aai_api_key, debug_keys, crash,
                   http_posts>>

\* lines 306-311, 431-436, 504-509: if user_input: answer = get_response(...)
AfterTranscribe ==
    /\ stage = "after_transcribe"
    /\ IF ProceedToLLM(user_input)
       THEN \E o \in LLMOutcomes : get_response(user_input, o, called, done)
       ELSE /\ pc' = NextTab(pc)
            /\ stage' = "idle"
            /\ UNCHANGED <<called, done, llm_prompt, answer, http_posts, crash>>
    /\ UNCHANGED <<platformVars, moduleVars, transcribeVars, flow, tts_file,
                   tts_text>>

\* lines 106-114 and 313-335 (also 438-460, 511-533, 549-570):
\* if answer: text_to_speech(answer); the mp3 is played and unlinked
AfterLLM ==
    /\ stage = "after_llm"
    /\ IF ProceedToTTS(answer)
       THEN /\ called' = called \cup {"tts"}
            /\ done' = done \cup {"tts"}
            /\ tts_text' = answer
            /\ \E ok \in BOOLEAN :
                 tts_file' = IF ok THEN Mp3Path(clock) ELSE NoPath
       ELSE UNCHANGED <<called, done, tts_text, tts_file>>
    /\ pc' = NextTab(pc)
    /\ stage' = "idle"
    /\ UNCHANGED <<platformVars, moduleVars, transcribeVars, flow, crash,
                   answer, llm_prompt, http_posts>>

\* lines 540-547: the text flow up to its get_response call
TextBegin ==
    /\ pc = "tab3"
    /\ stage = "idle"
    /\ flow' = "tab3"
    /\ \E user_text \in UserTexts, send \in BOOLEAN :
         IF send /\ strip(user_text) # <<>>
         THEN /\ \E o \in LLMOutcomes : get_response(Str(user_text), o, {}, {})
              /\ tts_file' = NoPath
              /\ tts_text' = None
         ELSE /\ pc' = "end"
              /\ called' = {}
              /\ done' = {}
              /\ llm_prompt' = None
              /\ answer' = None
              /\ tts_file' = NoPath
              /\ tts_text' = None
              /\ UNCHANGED <<stage, http_posts, crash>>
    /\ UNCHANGED <<platformVars, moduleVars, transcribeVars>>

\* time passes while the script runs
Tick ==
    /\ pc \notin {"end", "crashed", "rerun"}
    /\ clock < MaxClock
    /\ clock' = clock + 1
    /\ UNCHANGED <<env, audio_dir, moduleVars, transcribeVars, chainVars, pc,
                   crash, flow, stage, called, done>>

Next ==
    \/ Import
    \/ Setup
    \/ Defs
    \/ RecorderBegin("tab1")
    \/ WebrtcBegin
    \/ RecorderBegin("simple2")
    \/ TranscribeEnter
    \/ Attempt
    \/ AfterTranscribe
    \/ AfterLLM
    \/ TextBegin
    \/ Tick

Spec == Init /\ [][Next]_vars

\* ===================================================================== claims
Phrases ==
    { <<"t","h","a","n","k"," ","y","o","u">>,
      <<"t","h","a","n","k"," ","y","o","u",".">>,
      <<"t","h","a","n","k","s"," ","f","o","r"," ","w","a","t","c","h","i","n","g">> }

ModuleLevelErrors == {"StreamlitAPIException", "NameError"}

\* this call of transcribe_audio got as far as calling save_as_wav
SaveCalled ==
    /\ flow \in VoiceFlows
    /\ "transcribe" \in called
    /\ ~audio_bytes.isNone /\ audio_bytes.len > 0
    /\ aai_api_key = "set"

\* C1: in a voice flow get_response is called only after transcribe_audio
\* returned, with the non-empty text it returned; text_to_speech is called only
\* after get_response returned, with the non-empty answer it returned; once a
\* stage has returned None no later stage of the flow is called.
C1_StageOrder ==
    flow \in VoiceFlows =>
        /\ "llm" \in called =>
              /\ "transcribe" \in done
              /\ ~user_input.isNone /\ user_input.s # <<>>
              /\ llm_prompt = user_input
        /\ "tts" \in called =>
              /\ "llm" \in done
              /\ ~answer.isNone /\ answer.s # <<>>
              /\ tts_text = answer
        /\ ("transcribe" \in done /\ user_input = None) =>
              called \cap {"llm", "tts"} = {}
        /\ ("llm" \in done /\ answer = None) => "tts" \notin called
        /\ done \subseteq called

C1_Witness ==
    /\ flow \in VoiceFlows
    /\ done = {"transcribe", "llm", "tts"}
    /\ tts_file # NoPath

\* C2: one call of transcribe_audio calls the transcriber at most 3 times; a
\* further attempt follows only an attempt that raised or returned status error,
\* and only while fewer than 3 were made; a completed attempt ends the call; after
\* a third failure the call reports the error and returns None without raising.
C2_RetryBound ==
    flow \in VoiceFlows =>
        /\ transcriber_calls <= 3
        /\ (stage = "attempt" /\ transcriber_calls > 0) =>
              /\ last_attempt.kind \in {"raised", "error"}
              /\ transcriber_calls < 3
        /\ last_attempt.kind = "completed" =>
              /\ stage # "attempt"
              /\ "transcribe" \in done
        /\ (last_attempt.kind \in {"raised", "error"} /\ stage # "attempt") =>
              /\ transcriber_calls = 3
              /\ "transcribe" \in done
              /\ user_input = None
              /\ error_reported
              /\ crash = "none"

C2_Witness ==
    /\ flow \in VoiceFlows
    /\ transcriber_calls = 3
    /\ last_attempt.kind \in {"raised", "error"}
    /\ "transcribe" \in done
    /\ error_reported

\* C3: with ASSEMBLYAI_API_KEY unset, transcribe_audio returns None, creates no
\* file and never calls the transcriber; with OPENROUTER_API_KEY unset,
\* get_response returns None and no HTTP request is sent.
C3_NoRequestWithoutKey ==
    /\ env.assemblyai = "unset" =>
          /\ transcriber_calls = 0
          /\ created = {}
          /\ audio_dir = {}
          /\ (flow \in VoiceFlows /\ "transcribe" \in done) => user_input = None
    /\ env.openrouter = "unset" =>
          /\ http_posts = 0
          /\ "llm" \in done => answer = None

C3_Witness ==
    /\ env.assemblyai = "unset"
    /\ env.openrouter = "unset"
    /\ audio_bytes.len >= MinAudioBytes
    /\ flow = "tab3"
    /\ "llm" \in done

\* the part of C4 about audio that is empty or shorter than 1000 bytes:
\* transcribe_audio returns None, save_as_wav returns no path, no file is
\* created and the transcriber is not called
C4_Rejected ==
    (flow \in VoiceFlows /\ "transcribe" \in called
       /\ (audio_bytes.isNone \/ audio_bytes.len < 1000)) =>
        /\ "transcribe" \in done
        /\ user_input = None
        /\ file_path = NoPath
        /\ created = {}
        /\ transcriber_calls = 0

\* C4 as stated: audio shorter than 1000 bytes is rejected without a file and
\* without a transcriber call, and audio of 1000 bytes or more is written to a WAV
\* file whose path save_as_wav returns.
C4_Original ==
    /\ C4_Rejected
    /\ (SaveCalled /\ audio_bytes.len >= 1000) =>
          /\ file_path.kind = "wav"
          /\ file_path \in created

\* C4 as amended: audio shorter than 1000 bytes is rejected without a file and
\* without a transcriber call; audio of 1000 bytes or more is written to a WAV
\* file whose path save_as_wav returns, unless saving raised an exception, in
\* which case save_as_wav returns None.
C4_Amended ==
    /\ C4_Rejected
    /\ (SaveCalled /\ audio_bytes.len >= 1000) =>
          \/ save_raised /\ file_path = NoPath
          \/ /\ ~save_raised
             /\ file_path.kind = "wav"
             /\ file_path \in created
             /\ stage = "attempt" => file_path \in audio_dir

C4_Witness ==
    /\ SaveCalled
    /\ audio_bytes.len = 999
    /\ "transcribe" \in done

\* C5: transcribe_audio never returns a text whose stripped, lower-cased form
\* is one of the three phrases; a completed attempt with such a transcript ends
\* the call with None and no retry, and no such phrase reaches get_response in a
\* voice flow.
C5_HallucinationFiltered ==
    flow \in VoiceFlows =>
        /\ ("transcribe" \in done /\ ~user_input.isNone) =>
              lower(strip(user_input.s)) \notin Phrases
        /\ (last_attempt.kind = "completed" /\ ~last_attempt.text.isNone
              /\ lower(strip(last_attempt.text.s)) \in Phrases) =>
              /\ "transcribe" \in done
              /\ stage # "attempt"
              /\ user_input = None
              /\ "llm" \notin called
        /\ "llm" \in called => lower(strip(llm_prompt.s)) \notin Phrases

C5_Witness ==
    /\ flow \in VoiceFlows
    /\ last_attempt.kind = "completed"
    /\ ~last_attempt.text.isNone
    /\ last_attempt.text.s \notin Phrases
    /\ lower(strip(last_attempt.text.s)) \in Phrases
    /\ "transcribe" \in done

\* C6: when the import of streamlit_webrtc or av fails, HAS_WEBRTC is False,
\* no uncaught exception ends the script run before the tabs, and
\* webrtc_streamer is never called.
C6_FallbackWithoutWebrtc ==
    (pc # "import" /\ ~(env.webrtc_installed /\ env.av_installed)) =>
        /\ ~HAS_WEBRTC
        /\ crash \notin ModuleLevelErrors
        /\ ~webrtc_streamer_called

\* C7: when transcribe_audio has returned, no WAV file the call created is left
\* in AUDIO_DIR, and the file is still there at every attempt that reads it.
C7_NoRecordingLeft ==
    /\ (flow \in VoiceFlows /\ "transcribe" \in done) => created \cap audio_dir = {}
    /\ stage = "attempt" => file_path \in audio_dir
====
